---------------------------- MODULE Spec2Model ----------------------------
(***************************************************************************)
(* Model of portcode.py: PortCodeHandler (the caller-facing handle with    *)
(* its bounded request queue) and PortCodePinger (the worker thread that   *)
(* owns the serial line, merges the active codes and resets the line).     *)
(*                                                                         *)
(* Time is counted in ticks of SYNC_TIME / SyncTime.  A BitSet's           *)
(* time_started is kept as the time elapsed since it was stamped           *)
(* (time.monotonic() - time_started), saturating at SyncTime: the code     *)
(* only ever compares that difference with SYNC_TIME.                      *)
(***************************************************************************)
EXTENDS Integers, Sequences, FiniteSets

\* ------------------------------------------------- bounds and constants
\* the capacity of the request queue: queue.Queue(maxsize=10), scaled down
QueueMaxSize == 3
\* SYNC_TIME = 0.01 s, in ticks of 5 ms
SyncTime == 2

\* the threads that call the handle
Callers == {"c1", "c2"}
\* the arguments send_portcode is called with: two below/above the range,
\* 0 (reset) and two codes whose bits differ
SendInputs == {-1, 0, 1, 2, 256}

\* Python's None: as a task, as a time_started, as the absent serial device
NoTask == [kind |-> "none"]
NotStamped == <<>>
NoDevice == "None"
\* the tasks of the queue: "quit", or a code (0 is the reset)
Quit == [kind |-> "quit"]
Code(c) == [kind |-> "code", code |-> c]
IsCode(t) == t.kind = "code"
\* a time_started that was stamped dt ticks ago
Stamped(dt) == <<dt>>

VARIABLES
    queue,          \* PortCodeHandler.queue: the tasks not yet taken by the worker
    ser,            \* the serial device: "None" (emulate), "open" or "closed"
    cpc,            \* per caller: "ready", or inside close() waiting in worker.join()
    raised,         \* the exception the most recently completed call raised
    wpc,            \* the worker's position in run()
    task,           \* run(): the local variable task
    current_codes,  \* run(): the list of BitSet(time_started, code)
    current_code,   \* run(): the value the worker believes is on the wire
    sleep_left,     \* ticks left of the time.sleep(SYNC_TIME) of flush
    wire,           \* the last value emitted to the sink (written or printed)
    wtoggle         \* flips at every emission to the sink

vars == <<queue, ser, cpc, raised, wpc, task, current_codes, current_code,
          sleep_left, wire, wtoggle>>

callerVars == <<cpc, raised>>
workerVars == <<wpc, task, current_codes, current_code, sleep_left>>
sinkVars == <<wire, wtoggle>>

\* ------------------------------------------------------------ pure helpers
RECURSIVE BitOr(_, _)
\* Python's a | b on non-negative integers
BitOr(a, b) ==
    IF a = 0 THEN b
    ELSE IF b = 0 THEN a
    ELSE (IF a % 2 = 1 \/ b % 2 = 1 THEN 1 ELSE 0) + 2 * BitOr(a \div 2, b \div 2)

BitSet(time_started, code) == [time_started |-> time_started, code |-> code]

RECURSIVE get_code_from(_, _, _)
get_code_from(codes, i, num) ==
    IF i > Len(codes) THEN num
    ELSE get_code_from(codes, i + 1, BitOr(num, codes[i].code))

RECURSIVE get_code_sum_from(_, _, _)
get_code_sum_from(codes, i, num) ==
    IF i > Len(codes) THEN num
    ELSE get_code_sum_from(codes, i + 1, num + codes[i].code)

\* a get_code that adds the codes (num += i.code) instead of OR-ing them
get_code_sum(codes) == get_code_sum_from(codes, 1, 0)

\* get_code: num = 0; for i in current_codes: num |= i.code
get_code(codes) == get_code_from(codes, 1, 0)

\* update_codes: stamp the entries seen for the first time, keep the stamped
\* ones whose dt is still below SYNC_TIME
Keeps(i) == i.time_started = NotStamped \/ i.time_started[1] < SyncTime

update_codes(codes) ==
    LET kept == SelectSeq(codes, Keeps)
    IN  [k \in 1..Len(kept) |->
            IF kept[k].time_started = NotStamped
            THEN BitSet(Stamped(0), kept[k].code)
            ELSE kept[k]]

\* a queue that takes one task more than its maxsize
QueueFullOffByOne(q) == Len(q) > QueueMaxSize

\* queue.Queue.full()
QueueFull(q) == Len(q) >= QueueMaxSize

\* a close() that does not wait for the worker
JoinedAtOnce(pc) == TRUE

\* the serial device is released in close() only after worker.join() returned
Joined(pc) == pc = "done"

\* ------------------------------------------------------------------- Init
Init ==
    /\ queue = <<>>
    /\ ser \in {NoDevice, "open"}
    /\ cpc = [t \in Callers |-> "ready"]
    /\ raised = "none"
    /\ wpc = "init_flush"
    /\ task = NoTask
    /\ current_codes = <<>>
    /\ current_code = 0
    /\ sleep_left = 0
    /\ wire = 0
    /\ wtoggle = FALSE

\* ---------------------------------------------------------------- callers
\* the callers submit only while at most a queue's worth of tasks is queued
\* or active (this bounds the length of current_codes)
MaySubmit == Len(queue) + Len(current_codes) <= QueueMaxSize

\* close(): put_nowait("quit"), then worker.join()
EnterClose(t, after) ==
    IF QueueFull(queue)
    THEN /\ raised' = "Full"
         /\ UNCHANGED <<queue, cpc>>
    ELSE /\ MaySubmit
         /\ queue' = Append(queue, Quit)
         /\ cpc' = [cpc EXCEPT ![t] = after]
         /\ UNCHANGED raised

\* put_nowait(item) of send_portcode and clear
PutNowait(item) ==
    IF QueueFull(queue)
    THEN /\ raised' = "Full"
         /\ UNCHANGED queue
    ELSE /\ MaySubmit
         /\ queue' = Append(queue, item)
         /\ raised' = "none"

\* a send_portcode that checks only the lower end of the range
SendPortcodeNoUpper(t, code) ==
    /\ cpc[t] = "ready"
    /\ IF ~(0 <= code)
       THEN EnterClose(t, "join_send")
       ELSE PutNowait(Code(code)) /\ UNCHANGED cpc
    /\ UNCHANGED <<ser, workerVars, sinkVars>>

\* send_portcode(code): the range check, close() when it fails, put_nowait
SendPortcode(t, code) ==
    /\ cpc[t] = "ready"
    /\ IF ~(0 <= code /\ code <= 255)
       THEN EnterClose(t, "join_send")
       ELSE PutNowait(Code(code)) /\ UNCHANGED cpc
    /\ UNCHANGED <<ser, workerVars, sinkVars>>

\* a clear() that waits for the worker the way close() does
ClearWaits(t) ==
    /\ cpc[t] = "ready"
    /\ PutNowait(Code(0))
    /\ cpc' = [cpc EXCEPT ![t] = IF QueueFull(queue) THEN "ready" ELSE "join_close"]
    /\ UNCHANGED <<ser, workerVars, sinkVars>>

\* clear(): put_nowait(0)
Clear(t) ==
    /\ cpc[t] = "ready"
    /\ PutNowait(Code(0))
    /\ UNCHANGED <<cpc, ser, workerVars, sinkVars>>

Close(t) ==
    /\ cpc[t] = "ready"
    /\ EnterClose(t, "join_close")
    /\ UNCHANGED <<ser, workerVars, sinkVars>>

\* worker.join() returns, the device is closed, and close() returns (or
\* send_portcode raises its ValueError)
JoinReturn(t) ==
    /\ cpc[t] \in {"join_close", "join_send"}
    /\ Joined(wpc)
    /\ ser' = IF ser # NoDevice THEN "closed" ELSE ser
    /\ raised' = IF cpc[t] = "join_send" THEN "ValueError" ELSE "none"
    /\ cpc' = [cpc EXCEPT ![t] = "ready"]
    /\ UNCHANGED <<queue, workerVars, sinkVars>>

\* ----------------------------------------------------------------- worker
\* an emission to the sink: ser.write + ser.flush, or the emulation print
Emit(value) ==
    /\ wire' = value
    /\ wtoggle' = ~wtoggle

\* a run() that goes back to the loop head right after the flush for 0
AfterFlushContinue(from) ==
    IF from = "init"
    THEN /\ current_code' = 0
         /\ wpc' = "top"
         /\ UNCHANGED <<task, current_codes>>
    ELSE IF task = Quit
    THEN /\ wpc' = "done"
         /\ UNCHANGED <<task, current_codes, current_code>>
    ELSE /\ wpc' = "top"
         /\ UNCHANGED <<task, current_codes, current_code>>

\* the end of flush(): where run() goes on after the call returned
AfterFlush(from) ==
    IF from = "init"
    THEN /\ current_code' = 0
         /\ wpc' = "top"
         /\ UNCHANGED <<task, current_codes>>
    ELSE IF task = Quit
    THEN /\ wpc' = "done"
         /\ UNCHANGED <<task, current_codes, current_code>>
    ELSE /\ current_codes' = Append(current_codes, BitSet(NotStamped, task.code))
         /\ wpc' = "write"
         /\ UNCHANGED <<task, current_code>>

\* a flush() that writes its 0 without waiting for the active codes
FlushBodyNoWait(from, sleeping) ==
    IF ser # NoDevice
    THEN /\ Emit(0)
         /\ sleep_left' = SyncTime
         /\ wpc' = sleeping
         /\ UNCHANGED <<task, current_codes, current_code>>
    ELSE /\ AfterFlush(from)
         /\ UNCHANGED <<sleep_left, sinkVars>>

\* flush(): one turn of the busy wait, or the write of 0 that follows it
FlushBody(from, sleeping) ==
    IF Len(current_codes) > 0
    THEN /\ current_codes' = update_codes(current_codes)
         /\ UNCHANGED <<wpc, task, current_code, sleep_left, sinkVars>>
    ELSE IF ser # NoDevice
    THEN /\ Emit(0)
         /\ sleep_left' = SyncTime
         /\ wpc' = sleeping
         /\ UNCHANGED <<task, current_codes, current_code>>
    ELSE /\ AfterFlush(from)
         /\ UNCHANGED <<sleep_left, sinkVars>>

InitFlush ==
    /\ wpc = "init_flush"
    /\ FlushBody("init", "init_sleep")
    /\ UNCHANGED <<queue, ser, callerVars>>

Flush ==
    /\ wpc = "flush"
    /\ FlushBody("task", "flush_sleep")
    /\ UNCHANGED <<queue, ser, callerVars>>

\* time.sleep(SYNC_TIME) of flush() is over
FlushSleep ==
    /\ wpc \in {"init_sleep", "flush_sleep"}
    /\ sleep_left = 0
    /\ AfterFlush(IF wpc = "init_sleep" THEN "init" ELSE "task")
    /\ UNCHANGED <<queue, ser, callerVars, sleep_left, sinkVars>>

\* a dispatch that treats 0 as one more code to merge, without the flush
DispatchNoFlush(t) ==
    IF t = NoTask
    THEN /\ wpc' = "write"
         /\ UNCHANGED current_codes
    ELSE IF t = Quit
    THEN /\ wpc' = "flush"
         /\ UNCHANGED current_codes
    ELSE /\ current_codes' = Append(current_codes, BitSet(NotStamped, t.code))
         /\ wpc' = "write"

\* lines 149-157: what run() does with the task it took
Dispatch(t) ==
    IF t = NoTask
    THEN /\ wpc' = "write"
         /\ UNCHANGED current_codes
    ELSE IF t = Quit \/ t = Code(0)
    THEN /\ wpc' = "flush"
         /\ UNCHANGED current_codes
    ELSE /\ current_codes' = Append(current_codes, BitSet(NotStamped, t.code))
         /\ wpc' = "write"

\* a loop head that always waits in the blocking queue.get()
TopAlwaysBlocks ==
    /\ wpc = "top"
    /\ queue # <<>>
    /\ task' = Head(queue)
    /\ queue' = Tail(queue)
    /\ Dispatch(Head(queue))
    /\ UNCHANGED <<ser, callerVars, current_code, sleep_left, sinkVars>>

\* a loop head that calls get_nowait() without asking queue.empty() first
TopNoEmptyCheck ==
    /\ wpc = "top"
    /\ IF Len(current_codes) = 0
       THEN /\ queue # <<>>
            /\ task' = Head(queue)
            /\ queue' = Tail(queue)
            /\ Dispatch(Head(queue))
       ELSE /\ wpc' = "get_nowait"
            /\ UNCHANGED <<queue, task, current_codes>>
    /\ UNCHANGED <<ser, callerVars, current_code, sleep_left, sinkVars>>

\* lines 141-148: queue.get() when nothing is active, else queue.empty()
Top ==
    /\ wpc = "top"
    /\ IF Len(current_codes) = 0
       THEN /\ queue # <<>>
            /\ task' = Head(queue)
            /\ queue' = Tail(queue)
            /\ Dispatch(Head(queue))
       ELSE IF queue = <<>>
       THEN /\ task' = NoTask
            /\ Dispatch(NoTask)
            /\ UNCHANGED queue
       ELSE /\ wpc' = "get_nowait"
            /\ UNCHANGED <<queue, task, current_codes>>
    /\ UNCHANGED <<ser, callerVars, current_code, sleep_left, sinkVars>>

\* a get_nowait() that hands out the newest task instead of the oldest
GetNowaitNewest ==
    /\ wpc = "get_nowait"
    /\ IF queue = <<>>
       THEN /\ wpc' = "crashed"
            /\ UNCHANGED <<queue, task, current_codes>>
       ELSE /\ task' = queue[Len(queue)]
            /\ queue' = SubSeq(queue, 1, Len(queue) - 1)
            /\ Dispatch(queue[Len(queue)])
    /\ UNCHANGED <<ser, callerVars, current_code, sleep_left, sinkVars>>

\* line 148: queue.get_nowait(), which raises queue.Empty on an empty queue
GetNowait ==
    /\ wpc = "get_nowait"
    /\ IF queue = <<>>
       THEN /\ wpc' = "crashed"
            /\ UNCHANGED <<queue, task, current_codes>>
       ELSE /\ task' = Head(queue)
            /\ queue' = Tail(queue)
            /\ Dispatch(Head(queue))
    /\ UNCHANGED <<ser, callerVars, current_code, sleep_left, sinkVars>>

\* lines 159-162: merge, and write when the merged value changed
Write ==
    /\ wpc = "write"
    /\ LET new_code == get_code(current_codes)
       IN  IF new_code # current_code
           THEN /\ Emit(new_code)
                /\ current_code' = new_code
           ELSE UNCHANGED <<sinkVars, current_code>>
    /\ wpc' = "update"
    /\ UNCHANGED <<queue, ser, callerVars, task, current_codes, sleep_left>>

\* line 163: update_codes(current_codes)
Update ==
    /\ wpc = "update"
    /\ current_codes' = update_codes(current_codes)
    /\ wpc' = "top"
    /\ UNCHANGED <<queue, ser, callerVars, task, current_code, sleep_left, sinkVars>>

\* ------------------------------------------------------------------- time
Aged(i) ==
    IF i.time_started = NotStamped \/ i.time_started[1] >= SyncTime
    THEN i
    ELSE BitSet(Stamped(i.time_started[1] + 1), i.code)

\* the monotonic clock advances by one tick
Tick ==
    /\ current_codes' = [k \in 1..Len(current_codes) |-> Aged(current_codes[k])]
    /\ sleep_left' = IF sleep_left > 0 THEN sleep_left - 1 ELSE 0
    /\ UNCHANGED <<queue, ser, callerVars, wpc, task, current_code, sinkVars>>

\* ------------------------------------------------------------------- Spec
WorkerStep ==
    \/ InitFlush
    \/ Flush
    \/ FlushSleep
    \/ Top
    \/ GetNowait
    \/ Write
    \/ Update

Next ==
    \/ \E t \in Callers : \E code \in SendInputs : SendPortcode(t, code)
    \/ \E t \in Callers : Clear(t)
    \/ \E t \in Callers : Close(t)
    \/ \E t \in Callers : JoinReturn(t)
    \/ InitFlush
    \/ Flush
    \/ FlushSleep
    \/ Top
    \/ GetNowait
    \/ Write
    \/ Update
    \/ Tick

Spec == Init /\ [][Next]_vars

\* the worker thread keeps being scheduled and the clock keeps advancing
FairSpec == Spec /\ WF_vars(WorkerStep) /\ WF_vars(Tick)

\* ----------------------------------------------------------------- claims
\* bit k of n
Bit(n, k) == (n \div (2 ^ k)) % 2

\* some entry of the active set has bit k set
ActiveHasBit(k) == \E i \in 1..Len(current_codes) : Bit(current_codes[i].code, k) = 1

\* the worker waits in queue.get() and no task is there to wake it
WorkerBlocked == wpc = "top" /\ Len(current_codes) = 0 /\ queue = <<>>

\* C1: once a code was sent and nothing more is submitted, the wire returns
\* to 0 without a later task: whenever the worker waits in the blocking
\* queue.get() on an empty queue (so that only a later task makes it run
\* again), the wire is already at 0.
C1_WireReturnsToZero == WorkerBlocked => wire = 0

\* C2: right after the write step of an iteration the wire carries the
\* bitwise OR of the codes of the active set: bit k of the wire is set
\* exactly when some active entry has bit k set.
C2_WireIsOrOfActive ==
    wpc = "update" => \A k \in 0..7 : (Bit(wire, k) = 1) <=> ActiveHasBit(k)

\* two different codes are active, and the wire carries both
C2_Witness ==
    /\ wpc = "update"
    /\ Len(current_codes) = 2
    /\ current_codes[1].code = 1
    /\ current_codes[2].code = 2
    /\ wire = 3

\* C3: after the initial flush, every write to the sink carries a value that
\* differs from the value already on the wire.
C3_NoRedundantWrite ==
    [][(wpc # "init_flush" /\ wtoggle' # wtoggle) => wire' # wire]_vars

\* a call of send_portcode with a code outside 0..255 by caller t
BadSend(t) == \E code \in SendInputs \ (0..255) : SendPortcode(t, code)

\* C4: a send_portcode with a code outside 0..255 ends, whatever the state of
\* the handle, by raising ValueError with the worker exited: the call enters
\* close() and comes back from it only through the join.
C4_BadCodeClosesHandle ==
    [][\A t \in Callers :
          /\ BadSend(t) => cpc'[t] = "join_send"
          /\ (cpc[t] = "join_send" /\ JoinReturn(t))
                 => (raised' = "ValueError" /\ wpc' = "done")]_vars

\* C5: send_portcode and clear on a full queue fail at once with queue.Full
\* (the caller is not left waiting) and leave the queue, the active set and
\* the wire as they were.
C5_FullQueueFailsFast ==
    [][\A t \in Callers :
          (/\ Len(queue) = QueueMaxSize
           /\ (Clear(t) \/ \E code \in SendInputs : SendPortcode(t, code)))
          => /\ raised' = "Full"
             /\ cpc'[t] = "ready"
             /\ UNCHANGED <<queue, current_codes, wire>>]_vars

\* a call failed on a full queue
C5_Witness == Len(queue) = QueueMaxSize /\ raised = "Full"

\* C6: once close() has enqueued Quit the worker eventually exits; close()
\* returns only after the worker exited; and the device is closed only after
\* the worker exited.
C6_CloseJoinsWorker ==
    /\ [](ser = "closed" => wpc = "done")
    /\ [][\A t \in Callers :
             (cpc[t] # "ready" /\ cpc'[t] = "ready") => wpc = "done"]_vars
    /\ (\E t \in Callers : cpc[t] # "ready") ~> (wpc = "done")

\* close() has returned: the worker is gone and the device is closed
C6_Witness ==
    /\ ser = "closed"
    /\ wpc = "done"
    /\ \A t \in Callers : cpc[t] = "ready"

\* no ResetZero task is waiting in q
NoResetIn(q) == \A k \in 1..Len(q) : q[k] # Code(0)

\* C7 as stated: when clear() returns, the worker has processed the
\* ResetZero task and the wire is at 0.
C7_ClearWaitsForZero ==
    [][\A t \in Callers :
          (Clear(t) /\ raised' = "none") => (NoResetIn(queue') /\ wire' = 0)]_vars

\* C7 amended: clear() returns as soon as the ResetZero task is enqueued,
\* without waiting for the worker: at its return the task is the last of
\* the queue, and the worker and the wire are where they were.
C7_ClearReturnsAtOnce ==
    [][\A t \in Callers :
          (Clear(t) /\ raised' = "none")
          => /\ queue' = Append(queue, Code(0))
             /\ cpc'[t] = "ready"
             /\ UNCHANGED <<workerVars, wire>>]_vars

\* clear() has returned while a code is on the wire and its task waits
C7_Witness ==
    /\ raised = "none"
    /\ queue # <<>>
    /\ queue[Len(queue)] = Code(0)
    /\ wire # 0
    /\ Len(current_codes) > 0

\* C8: from the end of the write step of the iteration that took a
\* ResetZero task until the next task is taken, the wire is at 0, with a
\* device and in emulate mode.
C8_ResetLeavesZero ==
    (task = Code(0) /\ wpc \in {"update", "top", "get_nowait"}) => wire = 0

\* the worker has processed a ResetZero task in emulate mode, more tasks wait
C8_Witness ==
    /\ task = Code(0)
    /\ wpc = "update"
    /\ ser = NoDevice
    /\ wtoggle = FALSE
    /\ current_code = 0
    /\ wire = 0
    /\ queue # <<>>

\* C9: when the worker has exited the last value emitted to the sink is 0.
C9_QuitLeavesZero == wpc = "done" => wire = 0

\* the worker writes for a code it took from an idle state while a second
\* code that adds bits is already waiting behind it
WritesFirstOfTwo ==
    /\ wpc = "write"
    /\ wtoggle' # wtoggle
    /\ Len(current_codes) = 1
    /\ current_codes[1].time_started = NotStamped
    /\ current_codes[1].code # 0
    /\ queue # <<>>
    /\ IsCode(Head(queue))
    /\ BitOr(current_codes[1].code, Head(queue).code) # current_codes[1].code

\* C10: two codes enqueued back-to-back while nothing is active reach the
\* sink as one emission of c1 | c2, never as an emission of c1 alone first.
C10_SingleMergedEmission ==
    [][WritesFirstOfTwo
          => wire' = BitOr(current_codes[1].code, Head(queue).code)]_vars

\* the worker is about to write in the iteration that took a code c while an
\* earlier entry for the same c is still in the active set
SecondSend ==
    /\ wpc = "write"
    /\ IsCode(task)
    /\ task.code # 0
    /\ Len(current_codes) >= 2
    /\ current_codes[Len(current_codes)] = BitSet(NotStamped, task.code)
    /\ \E i \in 1..(Len(current_codes) - 1) : current_codes[i].code = task.code

\* some entry of the active set other than the one just appended has bit k
OthersHaveBit(k) ==
    \E i \in 1..(Len(current_codes) - 1) : Bit(current_codes[i].code, k) = 1

\* the codes that were active before the second send merge to current_code
OthersMergeToCurrent ==
    \A k \in 0..7 : (Bit(current_code, k) = 1) <=> OthersHaveBit(k)

\* C11: a code sent again while its first entry is still active adds no
\* write and does not change the wire: the iteration that takes it writes
\* only if the merge of the other active codes differs from current_code
\* (an entry expired meanwhile), and then writes that merge.
C11_SecondSendAddsNothing ==
    [][(SecondSend /\ wpc' = "update") =>
          IF OthersMergeToCurrent
          THEN wire' = wire /\ wtoggle' = wtoggle
          ELSE \A k \in 0..7 : (Bit(wire', k) = 1) <=> OthersHaveBit(k)]_vars

\* the second entry for code 1 went through the write step, the wire is at 1
C11_Witness ==
    /\ wpc = "update"
    /\ task = Code(1)
    /\ Len(current_codes) = 2
    /\ current_codes[1].code = 1
    /\ current_codes[1].time_started # NotStamped
    /\ current_codes[2] = BitSet(NotStamped, 1)
    /\ wire = 1

\* a task the queue may hold: "quit", or a code of one byte
ByteTask(t) == t = Quit \/ (IsCode(t) /\ t.code \in 0..255)

\* C12: every task in the queue is Quit or a code in 0..255, every code of
\* the active set is in 0..255 and so is every value emitted to the sink: a
\* code outside the range given to send_portcode never enters the queue.
C12_OnlyBytes ==
    /\ \A k \in 1..Len(queue) : ByteTask(queue[k])
    /\ task = NoTask \/ ByteTask(task)
    /\ \A i \in 1..Len(current_codes) : current_codes[i].code \in 0..255
    /\ current_code \in 0..255
    /\ wire \in 0..255

\* an out-of-range code was refused while two codes are on the wire
C12_Witness ==
    /\ \E t \in Callers : cpc[t] = "join_send"
    /\ Len(current_codes) = 2
    /\ wire = 3

\* every bit of code c is set in value v
HasBitsOf(v, c) == \A k \in 0..7 : Bit(c, k) = 1 => Bit(v, k) = 1

IsStamped(i) == i.time_started # NotStamped

\* a stamped entry whose settle window has not elapsed yet
InWindow(i) == IsStamped(i) /\ i.time_started[1] < SyncTime

\* an entry that carries a timestamp, and every entry once the write step of
\* its iteration is over, has its bits on the wire
AssertedOnWire ==
    \A i \in 1..Len(current_codes) :
        (IsStamped(current_codes[i]) \/ wpc = "update")
            => HasBitsOf(wire, current_codes[i].code)

\* no step removes an entry whose settle window has not elapsed
WindowKept ==
    \A i \in 1..Len(current_codes) :
        InWindow(current_codes[i])
            => \E j \in 1..Len(current_codes') :
                   /\ current_codes'[j].code = current_codes[i].code
                   /\ IsStamped(current_codes'[j])

\* C13: a code is stamped only once a wire value containing it was written,
\* and from then until its settle window has elapsed it stays in the active
\* set with all its bits on the wire: no write, the 0 of flush included,
\* clears them earlier.
C13_HeldForSettleWindow == []AssertedOnWire /\ [][WindowKept]_vars

\* a flush for ResetZero or Quit waits, with a device attached, while a code
\* that is half way through its window is still on the wire
C13_Witness ==
    /\ wpc = "flush"
    /\ ser = "open"
    /\ Len(current_codes) = 1
    /\ current_codes[1].code = 2
    /\ current_codes[1].time_started = Stamped(1)
    /\ wire = 2

\* some entry of the active set has outlived its settle window
SomeExpired ==
    \E i \in 1..Len(current_codes) :
        IsStamped(current_codes[i]) /\ ~InWindow(current_codes[i])

\* C14: the worker waits in the blocking queue.get() only with an empty
\* active set: while a code is active some step of the worker is always
\* possible, and (the worker being scheduled) every active code whose settle
\* window has elapsed is dropped from the active set, whether or not another
\* task arrives.
C14_ActiveCodesExpire ==
    /\ [](Len(current_codes) > 0 => ENABLED WorkerStep)
    /\ SomeExpired ~> ~SomeExpired

\* the worker polls an empty queue while a code that no task follows is
\* active
C14_Witness ==
    /\ wpc = "write"
    /\ task = NoTask
    /\ queue = <<>>
    /\ Len(current_codes) = 1
    /\ current_codes[1].time_started = Stamped(1)

\* the write step of the iteration that took a non-zero code while the
\* active set was empty
WritesAfterSettle ==
    /\ wpc = "write"
    /\ wpc' = "update"
    /\ IsCode(task)
    /\ task.code # 0
    /\ current_codes = <<BitSet(NotStamped, task.code)>>

\* C15: a non-zero code taken after all earlier codes have settled causes a
\* write that raises its bits from 0, also when it equals the code sent
\* before.
C15_NewTriggerIsWritten ==
    [][WritesAfterSettle =>
          /\ wtoggle' # wtoggle
          /\ \A k \in 0..7 : Bit(task.code, k) = 1 => Bit(wire, k) = 0
          /\ HasBitsOf(wire', task.code)]_vars

\* C16: the active set holds entries for non-zero codes only, and it is
\* empty once a ResetZero task has been processed.
C16_OnlyNonZeroEntries ==
    /\ \A i \in 1..Len(current_codes) : current_codes[i].code # 0
    /\ (task = Code(0) /\ wpc \in {"update", "top"}) => Len(current_codes) = 0

\* caller t submits a task in range: send_portcode with a valid code, or clear
ValidSubmit(t) ==
    Clear(t) \/ \E code \in SendInputs \cap (0..255) : SendPortcode(t, code)

\* close() has completed: the worker is gone and nobody waits in the join
HandleClosed == wpc = "done" /\ \A t \in Callers : cpc[t] = "ready"

\* C17: once close() has completed, send_portcode and clear fail and enqueue
\* nothing.
C17_ClosedHandleRefuses ==
    [][\A t \in Callers :
          (HandleClosed /\ ValidSubmit(t))
              => (queue' = queue /\ raised' # "none")]_vars

\* a task leaves the queue
TaskTaken == Len(queue') < Len(queue)

\* C18: tasks leave the queue one at a time and oldest first, taken by the
\* worker at the head of its loop (the task before is then fully processed);
\* the loop ends only by taking Quit and finishing its flush, so everything
\* enqueued before Quit was processed; after that nothing is taken, emitted
\* or changed by the worker.
C18_FifoUntilQuit ==
    /\ [](wpc # "crashed")
    /\ [][/\ TaskTaken =>
                /\ wpc \in {"top", "get_nowait"}
                /\ task' = Head(queue)
                /\ queue' = Tail(queue)
          /\ (wpc # "done" /\ wpc' = "done") =>
                (task = Quit /\ Len(current_codes) = 0)
          /\ wpc = "done" =>
                (~TaskTaken /\ UNCHANGED <<workerVars, sinkVars>>)]_vars

\* the worker has exited and a task enqueued after Quit is left in the queue
C18_Witness ==
    /\ wpc = "done"
    /\ task = Quit
    /\ queue # <<>>
    /\ IsCode(Head(queue))
    /\ wtoggle

\* C19: whenever the worker is at the head of its loop, about to wait on or
\* poll the queue, current_code is the last value emitted to the sink (0 if
\* nothing was emitted), with a device and in emulate mode.
C19_CurrentCodeIsWire ==
    wpc \in {"top", "get_nowait"} => current_code = wire

\* back at the loop head after a ResetZero task, with a device attached
C19_Witness ==
    /\ wpc = "top"
    /\ ser = "open"
    /\ task = Code(0)
    /\ current_codes = <<BitSet(Stamped(0), 0)>>
    /\ current_code = 0
    /\ wire = 0

\* C20: the get_nowait() that follows an empty() that returned false always
\* finds a task, whatever the callers do in between: the worker never ends
\* with queue.Empty.
C20_GetNowaitFindsTask ==
    /\ wpc = "get_nowait" => queue # <<>>
    /\ wpc # "crashed"

\* the worker is between empty() and get_nowait(), the queue has filled up
C20_Witness ==
    /\ wpc = "get_nowait"
    /\ Len(queue) = QueueMaxSize
    /\ Len(current_codes) > 0

=============================================================================
